---- MODULE Spec2Model ----
(***************************************************************************)
(* Model of src/lambda.py: the Slack webhook Lambda that relays shared     *)
(* files to an S3 bucket, answers /s3-fetch with a presigned link and      *)
(* /s3-list with the bucket listing.  One behaviour is one invocation of   *)
(* lambda_handler on one inbound request; external calls (Slack HTTP API,  *)
(* S3 client) succeed or fail nondeterministically.                        *)
(***************************************************************************)
EXTENDS Integers, Sequences, FiniteSets, TLC

\* ---------------------------------------------------------------- bounds
\* longest raw `text` argument of a slash command that is enumerated
MaxTextLen ==
  2

\* ------------------------------------------------------- program constants
\* ExpiresIn of the presigned URL
ExpiresIn ==
  3600

\* Python strings are sequences of one-character strings
URL_VERIFICATION ==
  <<"u","r","l","_","v","e","r","i","f","i","c","a","t","i","o","n">>

FILE_SHARED ==
  <<"f","i","l","e","_","s","h","a","r","e","d">>

S3_FETCH ==
  <<"/","s","3","-","f","e","t","c","h">>

S3_LIST ==
  <<"/","s","3","-","l","i","s","t">>

\* ------------------------------------------------------------ Python values
\* every value is tagged with its Python type
Str(s) ==
  [t |-> "str", v |-> s]

List(l) ==
  [t |-> "list", v |-> l]

Dict(d) ==
  [t |-> "dict", v |-> d]

None ==
  [t |-> "none", v |-> <<>>]

\* a key that the raw request does not carry
Absent ==
  [t |-> "absent", v |-> <<>>]

\* a literal or formatted response body / chat text
Lit(s) ==
  [t |-> "lit", v |-> s]

\* Python ==
PyEq(a, b) ==
  a.t = b.t /\ a.v = b.v

\* dict.get(k) with default None
Get(d, k) ==
  IF k \in DOMAIN d THEN d[k] ELSE None

\* x[0]: first character of a str, first element of a list
Index0(x) ==
  CASE x.t = "str" ->
         IF Len(x.v) = 0 THEN [ok |-> FALSE, exc |-> "IndexError", val |-> None]
         ELSE [ok |-> TRUE, exc |-> "none", val |-> Str(<<x.v[1]>>)]
    [] x.t = "list" ->
         IF Len(x.v) = 0 THEN [ok |-> FALSE, exc |-> "IndexError", val |-> None]
         ELSE [ok |-> TRUE, exc |-> "none", val |-> x.v[1]]
    [] x.t = "dict" -> [ok |-> FALSE, exc |-> "KeyError", val |-> None]
    [] OTHER -> [ok |-> FALSE, exc |-> "TypeError", val |-> None]

IsSpace(c) ==
  c = " "

RECURSIVE LStrip(_)
LStrip(s) ==
  IF Len(s) > 0 /\ IsSpace(s[1]) THEN LStrip(Tail(s)) ELSE s

RECURSIVE RStrip(_)
RStrip(s) ==
  IF Len(s) > 0 /\ IsSpace(s[Len(s)]) THEN RStrip(SubSeq(s, 1, Len(s) - 1)) ELSE s

\* str.strip()
Strip(s) ==
  RStrip(LStrip(s))

\* urllib.parse.quote_plus on the modelled alphabet: a space becomes "+"
QuotePlus(s) ==
  [i \in 1..Len(s) |-> IF s[i] = " " THEN "+" ELSE s[i]]

\* ------------------------------------------------------------------ inputs
Keys ==
  {"type", "challenge", "command", "text", "channel_id", "event"}

TextChars ==
  {" ", "r"}

TextArgs ==
  UNION {[1..k -> TextChars] : k \in 0..MaxTextLen}

CHALLENGE ==
  <<"a","b","c">>

CHANNEL ==
  <<"C","1">>

OTHER_CMD ==
  <<"/","x">>

\* names Slack may report for a shared file, in the order S3 lists them
FileNames ==
  <<(<<"n">>), (<<"r">>)>>

FileContents ==
  {"bytes1", "bytes2"}

FileSharedEvent ==
  Dict([type |-> Str(FILE_SHARED), file_id |-> Str(<<"F">>), channel_id |-> Str(CHANNEL)])

\* raw values of an application/x-www-form-urlencoded body, one per key
FormVals(k) ==
  CASE k = "type" -> {Absent, Str(URL_VERIFICATION)}
    [] k = "challenge" -> {Absent, Str(CHALLENGE)}
    [] k = "command" -> {Absent, Str(<<>>), Str(S3_FETCH), Str(S3_LIST), Str(OTHER_CMD)}
    [] k = "text" -> {Absent} \cup {Str(s) : s \in TextArgs}
    [] k = "channel_id" -> {Absent, Str(CHANNEL)}
    [] k = "event" -> {Absent, Str(<<"e">>)}

\* values of the members of a JSON object body
JsonVals(k) ==
  CASE k = "type" -> {Absent, Str(URL_VERIFICATION), Str(<<"e","v">>)}
    [] k = "challenge" -> {Absent, Str(CHALLENGE)}
    [] k = "command" -> {Absent, Str(<<>>), Str(S3_FETCH), List(<<Str(S3_FETCH)>>),
                         List(<<Str(S3_LIST)>>), List(<<Str(OTHER_CMD)>>)}
    [] k = "text" -> {Absent, List(<<Str(<<"r">>)>>)}
    [] k = "channel_id" -> {Absent, List(<<Str(CHANNEL)>>)}
    [] k = "event" -> {Absent, FileSharedEvent, Dict([type |-> Str(<<"m">>)]), Str(<<"e">>)}

NoFields ==
  [k \in Keys |-> Absent]

FormFields ==
  [type : FormVals("type"), challenge : FormVals("challenge"),
   command : FormVals("command"), text : FormVals("text"),
   channel_id : FormVals("channel_id"), event : FormVals("event")]

JsonFields ==
  [type : JsonVals("type"), challenge : JsonVals("challenge"),
   command : JsonVals("command"), text : JsonVals("text"),
   channel_id : JsonVals("channel_id"), event : JsonVals("event")]

Requests ==
  [transport : {"plain", "b64", "b64_invalid"}, enc : {"form"}, fields : FormFields]
  \cup
  [transport : {"plain", "b64", "b64_invalid"}, enc : {"json"}, fields : JsonFields]
  \cup
  [transport : {"plain"}, enc : {"json_array"}, fields : {NoFields}]

\* ----------------------------------------------------------------- parsers
\* urllib.parse.parse_qs: every key maps to the list of its values, and a
\* pair whose value is blank is dropped (keep_blank_values defaults to False)
ParseQs(fields) ==
  Dict([k \in {x \in Keys : fields[x].t = "str" /\ Len(fields[x].v) > 0} |->
          List(<<fields[k]>>)])

\* json.loads of an object body: members keep their JSON types
JsonLoads(fields) ==
  Dict([k \in {x \in Keys : fields[x].t # "absent"} |-> fields[k]])

\* lambda_handler's body parse: JSON first, form encoding as the fallback
Normalize(req) ==
  CASE req.enc = "json" -> JsonLoads(req.fields)
    [] req.enc = "json_array" -> List(<<>>)
    [] OTHER -> ParseQs(req.fields)

\* ------------------------------------------------------------------- state
VARIABLES
  request,    \* the inbound request (event['body'], event['isBase64Encoded'])
  body,       \* the normalized envelope
  pc,         \* position in lambda_handler / the running handler
  handlers,   \* handlers invoked so far, in order
  calls,      \* external calls attempted so far, in order
  bucket,     \* the S3 bucket: object key -> content
  loc,        \* local variables of the running handler
  ret,        \* value returned by the handler
  response,   \* value returned by lambda_handler
  exc         \* exception that left lambda_handler unhandled

vars ==
  <<request, body, pc, handlers, calls, bucket, loc, ret, response, exc>>

NoResponse ==
  [statusCode |-> 0, body |-> None]

Resp(code, b) ==
  [statusCode |-> code, body |-> b]

NoLocals ==
  [channel_id |-> None, file_name |-> <<>>, content |-> "", err |-> "none",
   url |-> None, listing |-> <<>>]

EmptyBucket ==
  [k \in {} |-> ""]

\* the bucket before the request: empty, or holding one earlier upload
InitialBuckets ==
  {EmptyBucket, [k \in {FileNames[2]} |-> "old"]}

Init ==
  /\ request \in Requests
  /\ body = None
  /\ pc = "start"
  /\ handlers = <<>>
  /\ calls = <<>>
  /\ bucket \in InitialBuckets
  /\ loc = NoLocals
  /\ ret = NoResponse
  /\ response = NoResponse
  /\ exc = "none"

\* ------------------------------------------------------------ lambda_handler
\* an exception nobody catches: the invocation ends without a response
Crash(e) ==
  /\ exc' = e
  /\ pc' = "done"
  /\ UNCHANGED <<request, body, handlers, calls, bucket, loc, ret, response>>

Respond(r) ==
  /\ response' = r
  /\ pc' = "done"
  /\ UNCHANGED <<request, body, handlers, calls, bucket, loc, ret, exc>>

Goto(p) ==
  /\ pc' = p
  /\ UNCHANGED <<request, body, handlers, calls, bucket, loc, ret, response, exc>>

Invoke(h, p) ==
  /\ handlers' = Append(handlers, h)
  /\ pc' = p
  /\ UNCHANGED <<request, body, calls, bucket, loc, ret, response, exc>>

\* lines 31-37: optional base64 transport decoding
DecodeBody ==
  /\ pc = "start"
  /\ IF request.transport = "b64_invalid"
     THEN Respond(Resp(400, Lit("Bad request body.")))
     ELSE Goto("parse")

\* lines 39-43
ParseBody ==
  /\ pc = "parse"
  /\ body' = Normalize(request)
  /\ pc' = "verify"
  /\ UNCHANGED <<request, handlers, calls, bucket, loc, ret, response, exc>>

\* lines 45-47
CheckChallenge ==
  /\ pc = "verify"
  /\ IF body.t # "dict" THEN Crash("AttributeError")
     ELSE IF PyEq(Get(body.v, "type"), Str(URL_VERIFICATION))
     THEN IF "challenge" \in DOMAIN body.v
          THEN Respond(Resp(200, body.v["challenge"]))
          ELSE Crash("KeyError")
     ELSE Goto("command")

\* lines 49-55
CheckCommand ==
  /\ pc = "command"
  /\ IF "command" \in DOMAIN body.v
     THEN LET command == Index0(body.v["command"]) IN
          IF ~command.ok THEN Crash(command.exc)
          ELSE IF PyEq(command.val, Str(S3_FETCH)) THEN Invoke("fetch", "fetch_args")
          ELSE IF PyEq(command.val, Str(S3_LIST)) THEN Invoke("list", "list_args")
          ELSE Goto("event")
     ELSE Goto("event")

\* lines 57-60
CheckEvent ==
  /\ pc = "event"
  /\ LET event_data == IF "event" \in DOMAIN body.v THEN body.v["event"] ELSE Dict(<<>>) IN
     IF event_data.t # "dict" THEN Crash("AttributeError")
     ELSE IF PyEq(Get(event_data.v, "type"), Str(FILE_SHARED))
     THEN Invoke("upload", "upload_info")
     ELSE Goto("default")

\* line 62
DefaultResponse ==
  /\ pc = "default"
  /\ Respond(Resp(200, Lit("Event received.")))

\* the fetch branch calls its handler without returning its value
ReturnsHandlerValueDropped(h) ==
  h # "fetch"

\* `return handle_*(...)` at lines 53, 55 and 60: the handler's value is
\* handed back as lambda_handler's own result
ReturnsHandlerValue(h) ==
  TRUE

Return ==
  /\ pc = "return"
  /\ IF ReturnsHandlerValue(handlers[Len(handlers)])
     THEN Respond(ret)
     ELSE Goto("event")

\* ------------------------------------------------------------ external calls
\* err is the exception the call raised, "none" when it returned
Call(op, key, data, err) ==
  [op |-> op, key |-> key, data |-> data, err |-> err, ok |-> (err = "none")]

\* post_slack_message (lines 170-185): one chat.postMessage attempt; a
\* RequestException is logged and swallowed, so the caller never sees it
PostSlackMessage(channel_id, text, ok) ==
  Call("chat.postMessage", channel_id, text, IF ok THEN "none" ELSE "RequestException")

Msg(kind, detail) ==
  [t |-> kind, v |-> detail]

Finish(r) ==
  /\ ret' = r
  /\ pc' = "return"

CallsOf(op) ==
  SelectSeq(calls, LAMBDA c : c.op = op)

\* -------------------------------------------------------- handle_file_upload
\* a failed step is not noticed and the handler carries on
UploadStepPcUnchecked(ok, nextPc) ==
  nextPc

\* try/except of lines 72-91: a failed step jumps to the except clause
UploadStepPc(ok, nextPc) ==
  IF ok THEN nextPc ELSE "upload_except"

\* the except clause reports success
UploadExceptResponseOk ==
  Resp(200, None)

\* line 91
UploadExceptResponse ==
  Resp(500, None)

\* the object is stored under a fixed key
PutObjectArgsFixedKey(l) ==
  [key |-> FileNames[1], data |-> l.content]

\* lines 81-85: Key and Body of the put_object call
PutObjectArgs(l) ==
  [key |-> l.file_name, data |-> l.content]

\* lines 69-75 with get_file_info (lines 156-167)
UploadGetFileInfo ==
  /\ pc = "upload_info"
  /\ LET event_data == body.v["event"].v
         file_id == Get(event_data, "file_id")
     IN \E outcome \in {"HTTPError", "SlackApiError", "KeyError", "ok"} :
        \E name \in {FileNames[i] : i \in 1..Len(FileNames)} :
          /\ outcome # "ok" => name = FileNames[1]
          /\ calls' = Append(calls, Call("files.info", file_id,
                                         IF outcome = "ok" THEN name ELSE <<>>,
                                         IF outcome = "ok" THEN "none" ELSE outcome))
          /\ loc' = [loc EXCEPT !.channel_id = Get(event_data, "channel_id"),
                                !.file_name = IF outcome = "ok" THEN name ELSE <<>>,
                                !.err = IF outcome = "ok" THEN "none" ELSE outcome]
          /\ pc' = UploadStepPc(outcome = "ok", "upload_download")
  /\ UNCHANGED <<request, body, handlers, bucket, ret, response, exc>>

\* lines 77-79
UploadDownload ==
  /\ pc = "upload_download"
  /\ \E ok \in BOOLEAN : \E content \in FileContents :
       /\ ~ok => content = "bytes1"
       /\ calls' = Append(calls, Call("download", loc.file_name,
                                      IF ok THEN content ELSE "",
                                      IF ok THEN "none" ELSE "HTTPError"))
       /\ loc' = [loc EXCEPT !.content = IF ok THEN content ELSE "",
                             !.err = IF ok THEN "none" ELSE "HTTPError"]
       /\ pc' = UploadStepPc(ok, "upload_put")
  /\ UNCHANGED <<request, body, handlers, bucket, ret, response, exc>>

\* lines 81-85
UploadPut ==
  /\ pc = "upload_put"
  /\ \E ok \in BOOLEAN :
       LET args == PutObjectArgs(loc) IN
       /\ calls' = Append(calls, Call("put_object", args.key, args.data,
                                      IF ok THEN "none" ELSE "ClientError"))
       /\ bucket' = IF ok
                    THEN [k \in DOMAIN bucket \cup {args.key} |->
                            IF k = args.key THEN args.data ELSE bucket[k]]
                    ELSE bucket
       /\ loc' = [loc EXCEPT !.err = IF ok THEN "none" ELSE "ClientError"]
       /\ pc' = UploadStepPc(ok, "upload_post")
  /\ UNCHANGED <<request, body, handlers, ret, response, exc>>

\* lines 86 and 93
UploadPostSuccess ==
  /\ pc = "upload_post"
  /\ \E ok \in BOOLEAN :
       calls' = Append(calls, PostSlackMessage(loc.channel_id,
                                               Msg("uploaded", loc.file_name), ok))
  /\ Finish(Resp(200, None))
  /\ UNCHANGED <<request, body, handlers, bucket, loc, response, exc>>

\* lines 88-91
UploadExcept ==
  /\ pc = "upload_except"
  /\ \E ok \in BOOLEAN :
       calls' = Append(calls, PostSlackMessage(loc.channel_id,
                                               Msg("error", loc.err), ok))
  /\ Finish(UploadExceptResponse)
  /\ UNCHANGED <<request, body, handlers, bucket, loc, response, exc>>

\* ----------------------------------------------------------- handle_s3_fetch
\* body[k][0] as the handlers read a slash-command parameter
Param(b, k) ==
  IF k \in DOMAIN b THEN Index0(b[k])
  ELSE [ok |-> FALSE, exc |-> "KeyError", val |-> None]

\* the except clauses of lines 121-129
FetchExcept(e, file_name) ==
  CASE e = "NoSuchKey" -> Resp(200, Msg("not_found", file_name))
    [] e = "ClientError" -> Resp(200, Lit("Error fetching the file."))
    [] OTHER -> Resp(500, Lit("Internal server error."))

\* the link expires after ten minutes
PresignArgsShort(file_name) ==
  [method |-> "get_object", expires |-> 600,
   disposition |-> QuotePlus(file_name)]

\* lines 107-115: the arguments of generate_presigned_url
PresignArgs(file_name) ==
  [method |-> "get_object", expires |-> ExpiresIn,
   disposition |-> QuotePlus(file_name)]

\* lines 100-105
FetchArgs ==
  /\ pc = "fetch_args"
  /\ LET text == Param(body.v, "text")
         channel == Param(body.v, "channel_id")
     IN IF ~text.ok THEN Finish(FetchExcept(text.exc, <<>>)) /\ loc' = loc
        ELSE IF text.val.t # "str"
        THEN Finish(FetchExcept("AttributeError", <<>>)) /\ loc' = loc
        ELSE IF ~channel.ok
        THEN Finish(FetchExcept(channel.exc, Strip(text.val.v))) /\ loc' = loc
        ELSE IF Len(Strip(text.val.v)) = 0
        THEN /\ Finish(Resp(200, Lit("Please provide a filename. Usage: /s3-fetch <filename>")))
             /\ loc' = [loc EXCEPT !.channel_id = channel.val]
        ELSE /\ loc' = [loc EXCEPT !.file_name = Strip(text.val.v),
                                   !.channel_id = channel.val]
             /\ pc' = "fetch_presign"
             /\ ret' = ret
  /\ UNCHANGED <<request, body, handlers, calls, bucket, response, exc>>

\* lines 107-115: the URL is signed locally; the call fails only when the
\* client cannot sign (no bucket name, no credentials)
FetchPresign ==
  /\ pc = "fetch_presign"
  /\ \E outcome \in {"none", "BotoCoreError"} :
       /\ calls' = Append(calls, Call("generate_presigned_url", loc.file_name,
                                      PresignArgs(loc.file_name), outcome))
       /\ IF outcome = "none"
          THEN /\ loc' = [loc EXCEPT !.url = Msg("url", [key |-> loc.file_name,
                                                          expires |-> PresignArgs(loc.file_name).expires])]
               /\ pc' = "fetch_post"
               /\ ret' = ret
          ELSE /\ Finish(FetchExcept(outcome, loc.file_name))
               /\ loc' = [loc EXCEPT !.err = outcome]
  /\ UNCHANGED <<request, body, handlers, bucket, response, exc>>

\* lines 117-119
FetchPost ==
  /\ pc = "fetch_post"
  /\ \E ok \in BOOLEAN :
       calls' = Append(calls, PostSlackMessage(loc.channel_id,
                         Msg("link", [name |-> loc.file_name, url |-> loc.url]), ok))
  /\ Finish(Resp(200, Msg("fetching", loc.file_name)))
  /\ UNCHANGED <<request, body, handlers, bucket, loc, response, exc>>

\* ------------------------------------------------------------ handle_s3_list
\* the except clause reports success
ListExceptResponseOk ==
  Resp(200, Lit("Error listing files."))

\* lines 151-153
ListExceptResponse ==
  Resp(500, Lit("Error listing files."))

\* the keys of the bucket as list_objects_v2 returns them (one page)
ListObjectsV2(b) ==
  SelectSeq(FileNames, LAMBDA k : k \in DOMAIN b)

\* line 146
BulletList(files) ==
  [i \in 1..Len(files) |-> <<"-", " ">> \o files[i]]

\* line 137
ListArgs ==
  /\ pc = "list_args"
  /\ LET channel == Param(body.v, "channel_id") IN
     IF ~channel.ok
     THEN Finish(ListExceptResponse) /\ loc' = [loc EXCEPT !.err = channel.exc]
     ELSE /\ loc' = [loc EXCEPT !.channel_id = channel.val]
          /\ pc' = "list_objects"
          /\ ret' = ret
  /\ UNCHANGED <<request, body, handlers, calls, bucket, response, exc>>

\* line 140
ListObjects ==
  /\ pc = "list_objects"
  /\ \E ok \in BOOLEAN :
       /\ calls' = Append(calls, Call("list_objects_v2", <<>>,
                                      IF ok THEN ListObjectsV2(bucket) ELSE <<>>,
                                      IF ok THEN "none" ELSE "ClientError"))
       /\ IF ok
          THEN /\ loc' = [loc EXCEPT !.listing = ListObjectsV2(bucket)]
               /\ pc' = "list_post"
               /\ ret' = ret
          ELSE /\ Finish(ListExceptResponse)
               /\ loc' = [loc EXCEPT !.err = "ClientError"]
  /\ UNCHANGED <<request, body, handlers, bucket, response, exc>>

\* lines 141-149
ListPost ==
  /\ pc = "list_post"
  /\ \E ok \in BOOLEAN :
       IF Len(loc.listing) = 0
       THEN /\ calls' = Append(calls, PostSlackMessage(loc.channel_id,
                                                       Msg("empty", <<>>), ok))
            /\ Finish(Resp(200, Lit("No files found.")))
       ELSE /\ calls' = Append(calls, PostSlackMessage(loc.channel_id,
                                        Msg("files", BulletList(loc.listing)), ok))
            /\ Finish(Resp(200, Lit("Files listed.")))
  /\ UNCHANGED <<request, body, handlers, bucket, loc, response, exc>>

Next ==
  \/ DecodeBody
  \/ ParseBody
  \/ CheckChallenge
  \/ CheckCommand
  \/ CheckEvent
  \/ DefaultResponse
  \/ Return
  \/ UploadGetFileInfo
  \/ UploadDownload
  \/ UploadPut
  \/ UploadPostSuccess
  \/ UploadExcept
  \/ FetchArgs
  \/ FetchPresign
  \/ FetchPost
  \/ ListArgs
  \/ ListObjects
  \/ ListPost

Spec ==
  Init /\ [][Next]_vars

\* ------------------------------------------------------------- vocabulary
Done ==
  pc = "done"

Posts ==
  CallsOf("chat.postMessage")

IsVerification ==
  body.t = "dict" /\ PyEq(Get(body.v, "type"), Str(URL_VERIFICATION))

DefaultBody ==
  Lit("Event received.")

UsageHint ==
  Lit("Please provide a filename. Usage: /s3-fetch <filename>")

\* a call to op that raised / that returned
Failed(op) ==
  \E i \in 1..Len(calls) : calls[i].op = op /\ ~calls[i].ok

Succeeded(op) ==
  \E i \in 1..Len(calls) : calls[i].op = op /\ calls[i].ok

\* every call to op1 comes before every call to op2
Precedes(op1, op2) ==
  \A i, j \in 1..Len(calls) :
    (calls[i].op = op1 /\ calls[j].op = op2) => i < j

\* ------------------------------------------------------------------ claims
\* C1: every request whose normalized envelope has type url_verification is
\* answered with status 200 and the envelope's challenge as body, and no
\* handler runs and no external call is made, whatever else it carries.
C1_VerificationEchoesChallenge ==
  (Done /\ IsVerification) =>
     /\ exc = "none"
     /\ "challenge" \in DOMAIN body.v
     /\ response = Resp(200, body.v["challenge"])
     /\ handlers = <<>>
     /\ calls = <<>>

\* C2: every invocation ends with a response whose status code is 200, 400
\* or 500, for every envelope shape and every outcome of the external calls.
C2_AlwaysResponds ==
  Done => (exc = "none" /\ response.statusCode \in {200, 400, 500})

\* C3: a /s3-fetch command whose text argument is empty or only whitespace
\* is answered with status 200 and the usage hint, with no storage call and
\* no chat post.
C3_BlankFetchGivesUsageHint ==
  (/\ Done
   /\ request.enc = "form"
   /\ request.transport # "b64_invalid"
   /\ request.fields.type = Absent
   /\ request.fields.command = Str(S3_FETCH)
   /\ request.fields.channel_id = Str(CHANNEL)
   /\ request.fields.text.t = "str"
   /\ Len(Strip(request.fields.text.v)) = 0)
  => (response = Resp(200, UsageHint) /\ calls = <<>>)

\* the command an envelope names: the parameter's value, a form parameter
\* being the one-element list of its value
CommandName ==
  IF body.v["command"].t = "list" /\ Len(body.v["command"].v) > 0
  THEN body.v["command"].v[1]
  ELSE body.v["command"]

\* C4: a request whose command is neither /s3-fetch nor /s3-list gets the
\* default response (200, generic acknowledgement), no handler runs and no
\* external call is made.
C4_OtherCommandGetsDefault ==
  (/\ body.t = "dict"
   /\ ~IsVerification
   /\ "command" \in DOMAIN body.v
   /\ CommandName.t = "str"
   /\ Len(CommandName.v) > 0
   /\ ~PyEq(CommandName, Str(S3_FETCH))
   /\ ~PyEq(CommandName, Str(S3_LIST)))
  => /\ handlers = <<>>
     /\ calls = <<>>
     /\ Done => (exc = "none" /\ response = Resp(200, DefaultBody))

C6_UploadFailurePostsOnce ==
  handlers = <<"upload">> =>
     /\ Len(Posts) <= 1
     /\ \A i \in 1..Len(calls) :
          (Done /\ calls[i].op \in {"files.info", "download", "put_object"}
                /\ ~calls[i].ok)
          => /\ Len(Posts) = 1
             /\ Posts[1].data = Msg("error", calls[i].err)
             /\ response = Resp(500, None)

C6_Witness ==
  /\ Done
  /\ handlers = <<"upload">>
  /\ Failed("put_object")
  /\ Len(Posts) = 1
  /\ response.statusCode = 500

\* C7: when metadata fetch, download and storage write all succeed, exactly
\* one storage write is made, its key is the reported file name and its body
\* the downloaded bytes, exactly one success chat post follows it (none
\* precedes it) and the status is 200.
C7_UploadSuccess ==
  (/\ Done
   /\ handlers = <<"upload">>
   /\ Succeeded("files.info") /\ Succeeded("download") /\ Succeeded("put_object"))
  => /\ Len(CallsOf("put_object")) = 1
     /\ Len(CallsOf("files.info")) = 1
     /\ Len(CallsOf("download")) = 1
     /\ CallsOf("put_object")[1].key = CallsOf("files.info")[1].data
     /\ CallsOf("put_object")[1].data = CallsOf("download")[1].data
     /\ bucket[CallsOf("files.info")[1].data] = CallsOf("download")[1].data
     /\ Len(Posts) = 1
     /\ Posts[1].data = Msg("uploaded", CallsOf("files.info")[1].data)
     /\ Precedes("put_object", "chat.postMessage")
     /\ response.statusCode = 200

C7_Witness ==
  /\ Done
  /\ handlers = <<"upload">>
  /\ Succeeded("put_object")
  /\ CallsOf("put_object")[1].key = FileNames[2]
  /\ CallsOf("put_object")[1].data = "bytes2"
  /\ Len(Posts) = 1
  /\ response.statusCode = 200

\* the key and channel the fetch handler reads from the envelope
FetchKey ==
  Strip(Param(body.v, "text").val.v)

FetchRequestWithKey ==
  /\ handlers = <<"fetch">>
  /\ Param(body.v, "text").ok
  /\ Param(body.v, "text").val.t = "str"
  /\ Len(FetchKey) > 0
  /\ Param(body.v, "channel_id").ok

\* C8 as stated: a /s3-fetch with a non-blank key and a channel makes exactly
\* one presigned-URL call (that key, expiry 3600), then exactly one chat post
\* containing the URL, and returns 200 whether or not the object exists; no
\* other storage call is made.
C8_FetchAlwaysPostsLink ==
  (Done /\ FetchRequestWithKey) =>
     /\ Len(CallsOf("generate_presigned_url")) = 1
     /\ CallsOf("generate_presigned_url")[1].key = FetchKey
     /\ CallsOf("generate_presigned_url")[1].data.expires = 3600
     /\ Len(Posts) = 1
     /\ Posts[1].data.t = "link"
     /\ Posts[1].data.v.url = Msg("url", [key |-> FetchKey, expires |-> 3600])
     /\ Precedes("generate_presigned_url", "chat.postMessage")
     /\ \A i \in 1..Len(calls) :
          calls[i].op \in {"generate_presigned_url", "chat.postMessage"}
     /\ response.statusCode = 200

\* C8 amended: a /s3-fetch with a non-blank key and a channel makes exactly
\* one presigned-URL call (that key, expiry 3600) and no other storage call;
\* when that call returns a URL, exactly one chat post containing it follows
\* and the status is 200 whether or not the object exists; when that call
\* raises, no chat post is made and the status is 500.
C8_FetchPostsLinkWhenSigned ==
  (Done /\ FetchRequestWithKey) =>
     /\ Len(CallsOf("generate_presigned_url")) = 1
     /\ CallsOf("generate_presigned_url")[1].key = FetchKey
     /\ CallsOf("generate_presigned_url")[1].data.expires = 3600
     /\ \A i \in 1..Len(calls) :
          calls[i].op \in {"generate_presigned_url", "chat.postMessage"}
     /\ bucket \in InitialBuckets
     /\ Succeeded("generate_presigned_url") =>
          /\ Len(Posts) = 1
          /\ Posts[1].data.t = "link"
          /\ Posts[1].data.v.url = Msg("url", [key |-> FetchKey, expires |-> 3600])
          /\ Precedes("generate_presigned_url", "chat.postMessage")
          /\ response.statusCode = 200
     /\ Failed("generate_presigned_url") =>
          /\ Posts = <<>>
          /\ response.statusCode = 500

C8_Witness ==
  /\ Done
  /\ FetchRequestWithKey
  /\ FetchKey \notin DOMAIN bucket
  /\ Succeeded("generate_presigned_url")
  /\ Len(Posts) = 1
  /\ response.statusCode = 200

\* C9: at most one of the upload, fetch and list handlers runs per request,
\* and once a handler has run its return value is the request's response.
C9_OneHandlerPerRequest ==
  /\ Len(handlers) <= 1
  /\ (Done /\ handlers # <<>>) =>
        (exc = "none" /\ ret # NoResponse /\ response = ret)

C9_Witness ==
  /\ Done
  /\ handlers = <<"fetch">>
  /\ "event" \in DOMAIN body.v
  /\ response = ret
  /\ response.statusCode = 200

\* C10: the upload handler writes to the bucket only after the metadata
\* fetch and the download have both succeeded; if either fails no storage
\* write is made and the bucket is unchanged.
C10_PutOnlyAfterFetchAndDownload ==
  handlers = <<"upload">> =>
     /\ \A j \in 1..Len(calls) :
          calls[j].op = "put_object" =>
             /\ \E i \in 1..(j - 1) : calls[i].op = "files.info" /\ calls[i].ok
             /\ \E i \in 1..(j - 1) : calls[i].op = "download" /\ calls[i].ok
     /\ (Failed("files.info") \/ Failed("download")) =>
             /\ CallsOf("put_object") = <<>>
             /\ bucket \in InitialBuckets

C10_Witness ==
  /\ Done
  /\ handlers = <<"upload">>
  /\ Succeeded("files.info")
  /\ Failed("download")
  /\ CallsOf("put_object") = <<>>
  /\ response.statusCode = 500
====
